---- MODULE Spec2Model ----
(***************************************************************************)
(* Pay-per-impression settlement: CampaignRegistry, ImpressionLogger and   *)
(* RewardVault (ink! contracts under src/contracts).                       *)
(*                                                                         *)
(* Every public message is one atomic step.  A message that panics         *)
(* (assert!, unwrap on None/Err, a failed invoke(), checked arithmetic)    *)
(* traps: the host reverts all of its storage writes and value transfers,  *)
(* those of its sub-calls included, and the step only records the failure  *)
(* in `last`.  CallBuilder::invoke() panics when the callee fails (the     *)
(* non-panicking form is try_invoke()).  A message call dispatches to the  *)
(* message named in the comment beside its selector.                       *)
(*                                                                         *)
(* Balance is u128 in the source; the model keeps the wrap-around width    *)
(* but scales it to BalanceBits bits.  Whether an arithmetic overflow      *)
(* panics or wraps is a property of the build (overflow-checks), fixed at  *)
(* construction and drawn nondeterministically in Init.                    *)
(***************************************************************************)
EXTENDS Integers, Sequences, FiniteSets, TLC

\* ------------------------------------------------------------------ bounds
BalanceBits == 20        \* width of Balance in the model (128 in the source)
MaxCampaigns == 2        \* submit_campaign is disabled once next_id reaches it
MaxPayout == 2           \* small payout_per_impression arguments: 0..MaxPayout
MaxImpressions == 2      \* max_impressions arguments: 0..MaxImpressions
MaxEscrow == 4           \* total value attached to submit_campaign calls
MaxBatch == 2            \* longest batch_record argument
MaxVaultDeposit == 20    \* value attached to a direct RewardVault.deposit
MaxDirectDeposits == 1   \* direct RewardVault.deposit calls a run takes
MaxReentry == 1          \* deepest re-entrant withdraw a recipient attempts

\* ------------------------------------------------------------ environment
Accounts == {"alice", "bob", "carol", "dave"}
RegistryDeployer == "alice"   \* caller of CampaignRegistry::new
LoggerDeployer == "bob"       \* caller of ImpressionLogger::new
VaultDeployer == "alice"      \* caller of RewardVault::new
TreasuryAccount == "dave"     \* argument of RewardVault::new
RegistryAddr == "registry"    \* address of the CampaignRegistry instance
VaultAddr == "vault"          \* address of the RewardVault instance
NotAVault == "carol"          \* an address that holds no RewardVault code

VARIABLES
    registry,         \* CampaignRegistry storage: owner, next_id, campaigns
    logger,           \* ImpressionLogger storage: owner, registry
    vault,            \* RewardVault storage: owner, split, treasury, balances
    funds,            \* native value held by the two value-holding contracts
    overflow_checks,  \* the build: TRUE = overflow panics, FALSE = it wraps
    initial_deposit,  \* history: id -> value attached when it was created
    refunded,         \* history: id -> total value kill transferred back
    deposited,        \* history: number of direct calls of RewardVault.deposit
    last              \* the last message call and its outcome

vars == <<registry, logger, vault, funds, overflow_checks, initial_deposit, refunded,
          deposited, last>>

\* --------------------------------------------------------------- integers
Modulus == 2 ^ BalanceBits

Fits(x) == x >= 0 /\ x < Modulus

\* The outcome of a Balance operation whose mathematical result is x.
Arith(x) ==
    IF Fits(x) THEN [trap |-> FALSE, val |-> x]
    ELSE IF overflow_checks THEN [trap |-> TRUE, val |-> 0]
    ELSE [trap |-> FALSE, val |-> x % Modulus]

\* Mapping::get / Mapping::insert on a map held as a function
Get(m, k, default) == IF k \in DOMAIN m THEN m[k] ELSE default

Insert(m, k, v) == [x \in DOMAIN m \cup {k} |-> IF x = k THEN v ELSE m[x]]

\* ------------------------------------------------------------ RewardVault
Denominator == 10000

split_unbalanced == [user |-> 5000, publisher |-> 5000, staker |-> 500, treasury |-> 500]

split == [user |-> 5000, publisher |-> 4000, staker |-> 500, treasury |-> 500]

Share_rounding_up(value, w) ==
    LET prod == Arith(value * w)
    IN  [trap |-> prod.trap, val |-> (prod.val + Denominator - 1) \div Denominator]

\* value * w as u128 / 10_000
Share(value, w) ==
    LET prod == Arith(value * w)
    IN  [trap |-> prod.trap, val |-> prod.val \div Denominator]

\* fn credit: balances[to] += amount.  Returns [trap, balances].
credit_overwrite(balances, to, amount) ==
    [trap |-> FALSE, balances |-> Insert(balances, to, amount)]

credit(balances, to, amount) ==
    LET bal == Arith(Get(balances, to, 0) + amount)
    IN  [trap |-> bal.trap, balances |-> Insert(balances, to, bal.val)]

deposit_treasury_share_to_owner(v, user, publisher, staker, value) ==
    LET s  == v.split
        a1 == Share(value, s.user)
        c1 == credit(v.balances, user, a1.val)
        a2 == Share(value, s.publisher)
        c2 == credit(c1.balances, publisher, a2.val)
        a3 == Share(value, s.staker)
        c3 == credit(c2.balances, staker, a3.val)
        a4 == Share(value, s.treasury)
        c4 == credit(c3.balances, v.owner, a4.val)
        trap == a1.trap \/ c1.trap \/ a2.trap \/ c2.trap
                \/ a3.trap \/ c3.trap \/ a4.trap \/ c4.trap
    IN  IF trap THEN [ok |-> FALSE, vault |-> v]
        ELSE [ok |-> TRUE, vault |-> [v EXCEPT !.balances = c4.balances]]

\* deposit(user, publisher, staker) with `value` attached, on vault storage v.
\* Returns [ok, vault]; the attached value is moved by the caller of this
\* operator (the call primitive), not here.
deposit(v, user, publisher, staker, value) ==
    LET s  == v.split
        a1 == Share(value, s.user)
        c1 == credit(v.balances, user, a1.val)
        a2 == Share(value, s.publisher)
        c2 == credit(c1.balances, publisher, a2.val)
        a3 == Share(value, s.staker)
        c3 == credit(c2.balances, staker, a3.val)
        a4 == Share(value, s.treasury)
        c4 == credit(c3.balances, v.treasury, a4.val)
        trap == a1.trap \/ c1.trap \/ a2.trap \/ c2.trap
                \/ a3.trap \/ c3.trap \/ a4.trap \/ c4.trap
    IN  IF trap THEN [ok |-> FALSE, vault |-> v]
        ELSE [ok |-> TRUE, vault |-> [v EXCEPT !.balances = c4.balances]]

\* withdraw() by `caller` on vault storage v holding vf of native value.
\* self.env().transfer hands control to the recipient, which may call
\* withdraw again (depth = how deep it tries); a failed inner call is reverted
\* alone and the recipient carries on.  Returns [result, vault, funds, paid,
\* inner]: paid is the value the caller received, inner the outcome of its
\* re-entrant attempt ("none" when it made none).
RECURSIVE withdraw_transfer_first(_, _, _, _)
withdraw_transfer_first(v, vf, caller, depth) ==
    LET amount == Get(v.balances, caller, 0)
        inner  == IF depth > 0
                  THEN withdraw_transfer_first(v, vf - amount, caller, depth - 1)
                  ELSE [result |-> "none", vault |-> v, funds |-> vf - amount,
                        paid |-> 0, inner |-> "none"]
    IN  IF ~(amount > 0)
        THEN [result |-> "NothingToWithdraw", vault |-> v, funds |-> vf,
              paid |-> 0, inner |-> "none"]
        ELSE IF vf < amount
        THEN [result |-> "TransferFailed", vault |-> v, funds |-> vf,
              paid |-> 0, inner |-> "none"]
        ELSE [result |-> "Ok",
              vault  |-> [inner.vault EXCEPT !.balances = Insert(@, caller, 0)],
              funds  |-> inner.funds,
              paid   |-> amount + inner.paid,
              inner  |-> inner.result]

withdraw_keeping_balance(v, vf, caller, depth) ==
    LET amount == Get(v.balances, caller, 0)
    IN  IF ~(amount > 0)
        THEN [result |-> "NothingToWithdraw", vault |-> v, funds |-> vf,
              paid |-> 0, inner |-> "none"]
        ELSE IF vf < amount
        THEN [result |-> "TransferFailed", vault |-> v, funds |-> vf,
              paid |-> 0, inner |-> "none"]
        ELSE [result |-> "Ok", vault |-> v, funds |-> vf - amount,
              paid |-> amount, inner |-> "none"]

RECURSIVE withdraw(_, _, _, _)
withdraw(v, vf, caller, depth) ==
    LET amount == Get(v.balances, caller, 0)
        zeroed == [v EXCEPT !.balances = Insert(@, caller, 0)]
        inner  == IF depth > 0
                  THEN withdraw(zeroed, vf - amount, caller, depth - 1)
                  ELSE [result |-> "none", vault |-> zeroed, funds |-> vf - amount,
                        paid |-> 0, inner |-> "none"]
    IN  IF ~(amount > 0)
        THEN [result |-> "NothingToWithdraw", vault |-> v, funds |-> vf,
              paid |-> 0, inner |-> "none"]
        ELSE IF vf < amount
        THEN [result |-> "TransferFailed", vault |-> v, funds |-> vf,
              paid |-> 0, inner |-> "none"]
        ELSE [result |-> "Ok", vault |-> inner.vault, funds |-> inner.funds,
              paid |-> amount + inner.paid, inner |-> inner.result]

\* ------------------------------------------------------- CampaignRegistry
\* A world is the storage and funds one transaction can touch:
\* [registry, vault, funds, refunded].

fetch(r, id) == r.campaigns[id]

only_owner_anyone(r, caller) == TRUE

only_owner(r, caller) == caller = r.owner

submit_campaign_reusing_id(w, caller, payout_per_impression, max_impressions, reward_vault, value) ==
    LET required == Arith(payout_per_impression * max_impressions)
        id == IF w.registry.next_id = 0 THEN 0 ELSE w.registry.next_id - 1
        c  == [advertiser |-> caller,
               reward_vault |-> reward_vault,
               payout_per_impression |-> payout_per_impression,
               deposit_remaining |-> value,
               max_impressions |-> max_impressions,
               approved |-> FALSE,
               killed |-> FALSE]
    IN  IF required.trap THEN [result |-> "ArithmeticOverflow", w |-> w, id |-> -1]
        ELSE IF ~(value >= required.val)
        THEN [result |-> "InsufficientDeposit", w |-> w, id |-> -1]
        ELSE [result |-> "Ok",
              w |-> [w EXCEPT !.registry.next_id = @ + 1,
                              !.registry.campaigns = Insert(@, id, c),
                              !.funds.registry = @ + value],
              id |-> id]

submit_campaign(w, caller, payout_per_impression, max_impressions, reward_vault, value) ==
    LET required == Arith(payout_per_impression * max_impressions)
        id == w.registry.next_id
        c  == [advertiser |-> caller,
               reward_vault |-> reward_vault,
               payout_per_impression |-> payout_per_impression,
               deposit_remaining |-> value,
               max_impressions |-> max_impressions,
               approved |-> FALSE,
               killed |-> FALSE]
    IN  IF required.trap THEN [result |-> "ArithmeticOverflow", w |-> w, id |-> -1]
        ELSE IF ~(value >= required.val)
        THEN [result |-> "InsufficientDeposit", w |-> w, id |-> -1]
        ELSE [result |-> "Ok",
              w |-> [w EXCEPT !.registry.next_id = @ + 1,
                              !.registry.campaigns = Insert(@, id, c),
                              !.funds.registry = @ + value],
              id |-> id]

approve_clearing_killed(w, caller, id) ==
    IF ~only_owner(w.registry, caller) THEN [result |-> "NotOwner", w |-> w]
    ELSE IF id \notin DOMAIN w.registry.campaigns
    THEN [result |-> "CampaignNotFound", w |-> w]
    ELSE LET c == [fetch(w.registry, id) EXCEPT !.approved = TRUE, !.killed = FALSE]
         IN  [result |-> "Ok",
              w |-> [w EXCEPT !.registry.campaigns = Insert(@, id, c)]]

approve(w, caller, id) ==
    IF ~only_owner(w.registry, caller) THEN [result |-> "NotOwner", w |-> w]
    ELSE IF id \notin DOMAIN w.registry.campaigns
    THEN [result |-> "CampaignNotFound", w |-> w]
    ELSE LET c == [fetch(w.registry, id) EXCEPT !.approved = TRUE]
         IN  [result |-> "Ok",
              w |-> [w EXCEPT !.registry.campaigns = Insert(@, id, c)]]

\* build_call().call(callee).transferred_value(value) ... deposit(..): the
\* value moves and RewardVault.deposit runs, or the call fails as a whole.
call_deposit(w, callee, value, user, publisher, staker) ==
    LET d == deposit(w.vault, user, publisher, staker, value)
    IN  IF callee # VaultAddr \/ w.funds.registry < value \/ ~d.ok
        THEN [ok |-> FALSE, w |-> w]
        ELSE [ok |-> TRUE,
              w |-> [w EXCEPT !.funds.registry = @ - value,
                              !.funds.vault = @ + value,
                              !.vault = d.vault]]

is_active_ignoring_killed(c) == c.approved

is_active(c) == c.approved /\ ~c.killed

has_funds_unchecked(c) == TRUE

has_funds(c) == c.deposit_remaining >= c.payout_per_impression

\* lines 72-83: invoke() panics on a failed call; then the decrement and insert
settle_ignoring_failure(w, id, c, call) ==
    LET rem == Arith(c.deposit_remaining - c.payout_per_impression)
        c2  == [c EXCEPT !.deposit_remaining = rem.val]
    IN  IF rem.trap THEN [result |-> "ArithmeticOverflow", w |-> w, sub |-> "ok"]
        ELSE [result |-> "Ok",
              w |-> [call.w EXCEPT !.registry.campaigns = Insert(@, id, c2)],
              sub |-> IF call.ok THEN "ok" ELSE "failed"]

settle(w, id, c, call) ==
    LET rem == Arith(c.deposit_remaining - c.payout_per_impression)
        c2  == [c EXCEPT !.deposit_remaining = rem.val]
    IN  IF ~call.ok THEN [result |-> "CallFailed", w |-> w, sub |-> "failed"]
        ELSE IF rem.trap THEN [result |-> "ArithmeticOverflow", w |-> w, sub |-> "ok"]
        ELSE [result |-> "Ok",
              w |-> [call.w EXCEPT !.registry.campaigns = Insert(@, id, c2)],
              sub |-> "ok"]

\* Returns [result, w, sub]: sub is "none" when RewardVault.deposit was not
\* called, else whether that sub-call succeeded.
record_impression(w, id, user, publisher, staker) ==
    IF id \notin DOMAIN w.registry.campaigns
    THEN [result |-> "CampaignNotFound", w |-> w, sub |-> "none"]
    ELSE LET c == fetch(w.registry, id)
         IN  IF ~is_active(c)
             THEN [result |-> "CampaignNotActive", w |-> w, sub |-> "none"]
             ELSE IF ~has_funds(c)
             THEN [result |-> "CampaignOutOfFunds", w |-> w, sub |-> "none"]
             ELSE settle(w, id, c,
                         call_deposit(w, c.reward_vault, c.payout_per_impression,
                                      user, publisher, staker))

\* Returns [result, w, transfer]: transfer is "none" when no refund was
\* attempted, else the outcome of self.env().transfer, which .ok() discards.
kill(w, caller, id) ==
    IF ~only_owner(w.registry, caller)
    THEN [result |-> "NotOwner", w |-> w, transfer |-> "none"]
    ELSE IF id \notin DOMAIN w.registry.campaigns
    THEN [result |-> "CampaignNotFound", w |-> w, transfer |-> "none"]
    ELSE LET c  == [fetch(w.registry, id) EXCEPT !.killed = TRUE]
             w1 == [w EXCEPT !.registry.campaigns = Insert(@, id, c)]
         IN  IF c.deposit_remaining > 0
             THEN IF w.funds.registry >= c.deposit_remaining
                  THEN [result |-> "Ok",
                        w |-> [w1 EXCEPT !.funds.registry = @ - c.deposit_remaining,
                                         !.refunded[id] = @ + c.deposit_remaining],
                        transfer |-> "ok"]
                  ELSE [result |-> "Ok", w |-> w1, transfer |-> "failed"]
             ELSE [result |-> "Ok", w |-> w1, transfer |-> "none"]

\* ------------------------------------------------------- ImpressionLogger
\* The loop of batch_record: one record_impression call per record, in order;
\* invoke() panics on the first that fails.  Returns [ok, w].
RECURSIVE forward_skipping_failures(_, _)
forward_skipping_failures(w, records) ==
    IF records = <<>> THEN [ok |-> TRUE, w |-> w]
    ELSE LET rec == Head(records)
             r   == record_impression(w, rec[1], rec[2], rec[3], rec[4])
         IN  forward_skipping_failures(r.w, Tail(records))

RECURSIVE forward(_, _)
forward(w, records) ==
    IF records = <<>> THEN [ok |-> TRUE, w |-> w]
    ELSE LET rec == Head(records)
             r   == record_impression(w, rec[1], rec[2], rec[3], rec[4])
         IN  IF r.result # "Ok" THEN [ok |-> FALSE, w |-> w]
             ELSE forward(r.w, Tail(records))

batch_record(w, lg, caller, records) ==
    IF caller # lg.owner THEN [result |-> "NotAuthorized", w |-> w]
    ELSE LET f == forward(w, records)
         IN  IF lg.registry = RegistryAddr /\ f.ok
             THEN [result |-> "Ok", w |-> f.w]
             ELSE [result |-> "CallFailed", w |-> w]

\* ------------------------------------------------------------------ state
World == [registry |-> registry, vault |-> vault, funds |-> funds, refunded |-> refunded]

Apply(w) ==
    /\ registry' = w.registry
    /\ vault' = w.vault
    /\ funds' = w.funds
    /\ refunded' = w.refunded

Init ==
    /\ registry = [owner |-> RegistryDeployer, next_id |-> 0, campaigns |-> <<>>]
    /\ logger = [owner |-> LoggerDeployer, registry |-> RegistryAddr]
    /\ vault = [owner |-> VaultDeployer, split |-> split,
                treasury |-> TreasuryAccount, balances |-> <<>>]
    /\ funds = [registry |-> 0, vault |-> 0]
    /\ overflow_checks \in BOOLEAN
    /\ initial_deposit = <<>>
    /\ refunded = <<>>
    /\ deposited = 0
    /\ last = [op |-> "new"]

\* ---------------------------------------------------------------- actions
Ids == 0 .. MaxCampaigns

\* the beneficiaries the logger and its bypassers report in the whole-system
\* specification: a viewer, and the treasury account as publisher and staker
Records == Ids \X {"carol"} \X {TreasuryAccount} \X {TreasuryAccount}

Batches == UNION {[1 .. n -> Records] : n \in 0 .. MaxBatch}

RECURSIVE SumTo(_, _)
SumTo(f, n) == IF n = 0 THEN 0 ELSE f[n - 1] + SumTo(f, n - 1)

\* total value advertisers have attached so far
Escrowed == SumTo(initial_deposit, registry.next_id)

SubmitCampaign(caller, payout, max, rv, value) ==
    /\ registry.next_id < MaxCampaigns
    /\ Escrowed + value <= MaxEscrow
    /\ LET r == submit_campaign(World, caller, payout, max, rv, value)
       IN  /\ Apply(IF r.result = "Ok"
                    THEN [r.w EXCEPT !.refunded = Insert(@, r.id, 0)]
                    ELSE r.w)
           /\ initial_deposit' = IF r.result = "Ok"
                                 THEN Insert(initial_deposit, r.id, value)
                                 ELSE initial_deposit
           /\ last' = [op |-> "submit_campaign", caller |-> caller,
                       payout_per_impression |-> payout, max_impressions |-> max,
                       reward_vault |-> rv, value |-> value,
                       result |-> r.result, id |-> r.id]
    /\ UNCHANGED <<logger, overflow_checks, deposited>>

Approve(caller, id) ==
    /\ LET r == approve(World, caller, id)
       IN  /\ Apply(r.w)
           /\ last' = [op |-> "approve", caller |-> caller, id |-> id,
                       result |-> r.result]
    /\ UNCHANGED <<logger, overflow_checks, initial_deposit, deposited>>

RecordImpression_owner_only(caller, id, user, publisher, staker) ==
    /\ LET r == IF only_owner(registry, caller)
                THEN record_impression(World, id, user, publisher, staker)
                ELSE [result |-> "NotOwner", w |-> World, sub |-> "none"]
       IN  /\ Apply(r.w)
           /\ last' = [op |-> "record_impression", caller |-> caller, id |-> id,
                       user |-> user, publisher |-> publisher, staker |-> staker,
                       result |-> r.result, sub |-> r.sub]
    /\ UNCHANGED <<logger, overflow_checks, initial_deposit, deposited>>

RecordImpression(caller, id, user, publisher, staker) ==
    /\ LET r == record_impression(World, id, user, publisher, staker)
       IN  /\ Apply(r.w)
           /\ last' = [op |-> "record_impression", caller |-> caller, id |-> id,
                       user |-> user, publisher |-> publisher, staker |-> staker,
                       result |-> r.result, sub |-> r.sub]
    /\ UNCHANGED <<logger, overflow_checks, initial_deposit, deposited>>

Kill(caller, id) ==
    /\ LET r == kill(World, caller, id)
       IN  /\ Apply(r.w)
           /\ last' = [op |-> "kill", caller |-> caller, id |-> id,
                       result |-> r.result, transfer |-> r.transfer]
    /\ UNCHANGED <<logger, overflow_checks, initial_deposit, deposited>>

BatchRecord(caller, records) ==
    /\ LET r == batch_record(World, logger, caller, records)
       IN  /\ Apply(r.w)
           /\ last' = [op |-> "batch_record", caller |-> caller,
                       records |-> records, result |-> r.result]
    /\ UNCHANGED <<logger, overflow_checks, initial_deposit, deposited>>

\* deposit is a public payable message that never reads its caller: any
\* account may call it directly.
Deposit(user, publisher, staker, value) ==
    /\ deposited < MaxDirectDeposits
    /\ LET d == deposit(vault, user, publisher, staker, value)
       IN  /\ vault' = d.vault
           /\ funds' = IF d.ok THEN [funds EXCEPT !.vault = @ + value] ELSE funds
           /\ deposited' = deposited + 1
           /\ last' = [op |-> "deposit", user |-> user,
                       publisher |-> publisher, staker |-> staker, value |-> value,
                       result |-> IF d.ok THEN "Ok" ELSE "ArithmeticOverflow"]
    /\ UNCHANGED <<registry, logger, overflow_checks, initial_deposit, refunded>>

Withdraw(caller, depth) ==
    /\ LET r == withdraw(vault, funds.vault, caller, depth)
       IN  /\ vault' = r.vault
           /\ funds' = [funds EXCEPT !.vault = r.funds]
           /\ last' = [op |-> "withdraw", caller |-> caller, depth |-> depth,
                       result |-> r.result, paid |-> r.paid, inner |-> r.inner]
    /\ UNCHANGED <<registry, logger, overflow_checks, initial_deposit, refunded,
                   deposited>>

\* The registry, the logger and the vault they pay into.
Next ==
    \/ \E payout \in 1 .. MaxPayout, max \in 1 .. MaxImpressions,
          value \in 0 .. MaxEscrow :
          SubmitCampaign("carol", payout, max, VaultAddr, value)
    \/ \E caller \in {"alice", "bob"}, id \in Ids : Approve(caller, id)
    \/ \E caller \in {"bob", "carol"}, rec \in Records :
          RecordImpression(caller, rec[1], rec[2], rec[3], rec[4])
    \/ \E caller \in {"alice", "bob"}, id \in Ids : Kill(caller, id)
    \/ \E caller \in {"alice", "bob"}, records \in Batches :
          BatchRecord(caller, records)

Spec == Init /\ [][Next]_vars

\* The vault alone, with deposits large enough for every share to be non-zero.
\* The three sets give every way the four parties (treasury included) can
\* coincide or differ.
Users == {"alice", TreasuryAccount}

Publishers == {"alice", "bob", TreasuryAccount}

NextVault ==
    \/ \E user \in Users, publisher \in Publishers, staker \in Accounts,
          value \in 0 .. MaxVaultDeposit :
          Deposit(user, publisher, staker, value)
    \/ \E caller \in Accounts, depth \in 0 .. MaxReentry : Withdraw(caller, depth)

\* The ledger a deposit or withdraw meets is either fresh or the one left by
\* an earlier deposit(alice, bob, carol) of MaxVaultDeposit.
InitVault ==
    /\ registry = [owner |-> RegistryDeployer, next_id |-> 0, campaigns |-> <<>>]
    /\ logger = [owner |-> LoggerDeployer, registry |-> RegistryAddr]
    /\ overflow_checks \in BOOLEAN
    /\ \E earlier \in BOOLEAN :
           LET fresh == [owner |-> VaultDeployer, split |-> split,
                         treasury |-> TreasuryAccount, balances |-> <<>>]
           IN  /\ vault = IF earlier
                          THEN deposit(fresh, "alice", "bob", "carol", MaxVaultDeposit).vault
                          ELSE fresh
               /\ funds = [registry |-> 0,
                           vault |-> IF earlier THEN MaxVaultDeposit ELSE 0]
    /\ initial_deposit = <<>>
    /\ refunded = <<>>
    /\ deposited = 0
    /\ last = [op |-> "new"]

SpecVault == InitVault /\ [][NextVault]_vars

\* submit_campaign alone, over arguments that include a payout whose product
\* with max_impressions does not fit Balance.
Payouts == (0 .. MaxPayout) \cup {Modulus \div 2}

NextSubmit ==
    \E caller \in {"bob", "carol"}, payout \in Payouts, max \in 0 .. MaxImpressions,
       rv \in {VaultAddr, NotAVault}, value \in 0 .. MaxEscrow :
       SubmitCampaign(caller, payout, max, rv, value)

SpecSubmit == Init /\ [][NextSubmit]_vars

\* ------------------------------------------------------------------ claims
Campaigns == registry.campaigns

Bal(v, a) == Get(v.balances, a, 0)

\* floor(value * w / 10000), as the specification states a share
FloorShare(value, w) == (value * w) \div 10000

\* what one deposit of `value` owes account a, by the roles a holds
Owed(a, user, publisher, staker, treasury, value) ==
    (IF a = user THEN FloorShare(value, 5000) ELSE 0)
    + (IF a = publisher THEN FloorShare(value, 4000) ELSE 0)
    + (IF a = staker THEN FloorShare(value, 500) ELSE 0)
    + (IF a = treasury THEN FloorShare(value, 500) ELSE 0)

\* C1: every stored campaign has 0 <= deposit_remaining <= the value attached
\* to the submit_campaign call that created it, and no step increases a
\* stored deposit_remaining.
C1_Bounded ==
    \A id \in DOMAIN Campaigns :
        /\ 0 <= Campaigns[id].deposit_remaining
        /\ Campaigns[id].deposit_remaining <= initial_deposit[id]

C1_NeverIncreases ==
    \A id \in DOMAIN Campaigns :
        /\ id \in DOMAIN registry'.campaigns
        /\ registry'.campaigns[id].deposit_remaining <= Campaigns[id].deposit_remaining

\* C1 (formula): C1_Bounded in every state, C1_NeverIncreases in every step.
C1_DepositWithinInitial == [](C1_Bounded) /\ [][C1_NeverIncreases]_vars

\* an impression has consumed part of an escrow and part is left
C1_Witness ==
    \E id \in DOMAIN Campaigns :
        /\ 0 < Campaigns[id].deposit_remaining
        /\ Campaigns[id].deposit_remaining < initial_deposit[id]

\* C2: in every state reached after a kill transaction completes, a killed
\* campaign's stored deposit_remaining is 0.
C2_KilledHasNoDeposit ==
    \A id \in DOMAIN Campaigns :
        Campaigns[id].killed => Campaigns[id].deposit_remaining = 0

\* C3: once kill(id) has succeeded the campaign stays killed, and from then on
\* every record_impression(id, ..) fails CampaignNotActive, no batch naming id
\* succeeds, and nothing of its escrow is consumed or forwarded to the vault.
C3_KillTakesEffect ==
    (last'.op = "kill" /\ last'.result = "Ok") => registry'.campaigns[last'.id].killed

C3_KilledStaysInactive ==
    \A id \in DOMAIN Campaigns :
        Campaigns[id].killed =>
            /\ registry'.campaigns[id].killed
            /\ registry'.campaigns[id].deposit_remaining = Campaigns[id].deposit_remaining
            /\ (last'.op = "record_impression" /\ last'.id = id) =>
                   /\ last'.result = "CampaignNotActive"
                   /\ vault' = vault
                   /\ funds' = funds
            /\ (/\ last'.op = "batch_record"
                /\ \E i \in 1 .. Len(last'.records) : last'.records[i][1] = id) =>
                   /\ last'.result # "Ok"
                   /\ vault' = vault
                   /\ funds' = funds

\* C3 (formula): both step properties hold of every step.
C3_NoImpressionAfterKill == [][C3_KillTakesEffect /\ C3_KilledStaysInactive]_vars

\* record_impression was refused on a killed campaign that is approved and
\* still holds enough escrow for one payout
C3_Witness ==
    /\ last.op = "record_impression"
    /\ last.result = "CampaignNotActive"
    /\ last.id \in DOMAIN Campaigns
    /\ Campaigns[last.id].killed
    /\ Campaigns[last.id].approved
    /\ Campaigns[last.id].deposit_remaining >= Campaigns[last.id].payout_per_impression

\* C4: batch_record by the logger's owner is all-or-nothing.  It fails exactly
\* when some record, taken in order, names an unknown campaign, an inactive
\* campaign, or a campaign (or a registry) without the funds for one more
\* payout; a failed batch changes no campaign, balance or funds; a successful
\* one applies every record.
CountUpTo(records, i, id) == Cardinality({j \in 1 .. i : records[j][1] = id})

RECURSIVE PayoutsUpTo(_, _)
PayoutsUpTo(records, i) ==
    IF i = 0 THEN 0
    ELSE PayoutsUpTo(records, i - 1)
         + (IF records[i][1] \in DOMAIN Campaigns
            THEN Campaigns[records[i][1]].payout_per_impression ELSE 0)

RECURSIVE OwedUpTo(_, _, _)
OwedUpTo(a, records, i) ==
    IF i = 0 THEN 0
    ELSE OwedUpTo(a, records, i - 1)
         + Owed(a, records[i][2], records[i][3], records[i][4], vault.treasury,
                Campaigns[records[i][1]].payout_per_impression)

RecordFails(records, i) ==
    LET id == records[i][1]
    IN  \/ id \notin DOMAIN Campaigns
        \/ ~Campaigns[id].approved
        \/ Campaigns[id].killed
        \/ Campaigns[id].reward_vault # VaultAddr
        \/ CountUpTo(records, i, id) * Campaigns[id].payout_per_impression
               > Campaigns[id].deposit_remaining
        \/ PayoutsUpTo(records, i) > funds.registry

C4_Step ==
    (last'.op = "batch_record" /\ last'.caller = logger.owner) =>
        LET records == last'.records
            n == Len(records)
        IN  /\ (last'.result # "Ok") <=> (\E i \in 1 .. n : RecordFails(records, i))
            /\ last'.result # "Ok" =>
                   /\ registry' = registry
                   /\ vault' = vault
                   /\ funds' = funds
            /\ last'.result = "Ok" =>
                   /\ \A id \in DOMAIN Campaigns :
                          registry'.campaigns[id] =
                              [Campaigns[id] EXCEPT !.deposit_remaining =
                                  @ - CountUpTo(records, n, id)
                                      * Campaigns[id].payout_per_impression]
                   /\ \A a \in Accounts :
                          Bal(vault', a) = Bal(vault, a) + OwedUpTo(a, records, n)
                   /\ funds'.vault = funds.vault + PayoutsUpTo(records, n)
                   /\ funds'.registry = funds.registry - PayoutsUpTo(records, n)

\* C4 (formula): every batch_record step by the owner is all-or-nothing.
C4_BatchAllOrNothing == [][C4_Step]_vars

\* a batch failed at its second record although its first record alone is one
\* that record_impression accepts with a non-zero payout
C4_Witness ==
    /\ last.op = "batch_record"
    /\ last.caller = logger.owner
    /\ last.result # "Ok"
    /\ Len(last.records) >= 2
    /\ ~RecordFails(last.records, 1)
    /\ Campaigns[last.records[1][1]].payout_per_impression > 0
    /\ RecordFails(last.records, 2)

\* C5: a record_impression whose RewardVault.deposit sub-call fails reports
\* failure and changes no campaign, balance or funds; and whatever a step takes
\* off the stored escrows is exactly what that step moved into the vault.
TotalRemaining(r) ==
    SumTo([id \in DOMAIN r.campaigns |-> r.campaigns[id].deposit_remaining], r.next_id)

C5_Step ==
    /\ (last'.op = "record_impression" /\ last'.sub = "failed") =>
           /\ last'.result # "Ok"
           /\ registry' = registry
           /\ vault' = vault
           /\ funds' = funds
    /\ registry'.next_id = registry.next_id =>
           TotalRemaining(registry) - TotalRemaining(registry')
               = funds'.vault - funds.vault

\* C5 (formula): every step decrements escrow only with a successful deposit.
C5_DecrementOnlyAfterDeposit == [][C5_Step]_vars

\* a record_impression passed its checks and its sub-call then failed
C5_Witness ==
    /\ last.op = "record_impression"
    /\ last.sub = "failed"

\* C6: a successful deposit(user, publisher, staker) of value v raises every
\* account's balance by exactly the shares floor(v*w/10000) of the roles it
\* holds (user 5000, publisher 4000, staker 500, treasury 500), however the
\* four parties coincide, and changes nothing else of the ledger.
C6_Step ==
    (last'.op = "deposit" /\ last'.result = "Ok") =>
        /\ \A a \in Accounts :
               Bal(vault', a) = Bal(vault, a)
                   + Owed(a, last'.user, last'.publisher, last'.staker,
                          vault.treasury, last'.value)
        /\ DOMAIN vault'.balances \subseteq Accounts
        /\ funds'.vault = funds.vault + last'.value

\* C6 (formula): every deposit step credits exactly the shares of the roles.
C6_DepositCreditsShares == [][C6_Step]_vars

\* a deposit large enough for all four shares has just credited an account
\* that already held a balance in two roles (user and staker), and the
\* treasury as publisher
C6_Witness ==
    /\ last.op = "deposit"
    /\ last.result = "Ok"
    /\ last.value = MaxVaultDeposit
    /\ last.user = last.staker
    /\ last.publisher = vault.treasury
    /\ last.user # vault.treasury
    /\ FloorShare(last.value, 500) > 0
    /\ funds.vault = 2 * MaxVaultDeposit
    /\ Bal(vault, last.user) = 2 * FloorShare(last.value, 5000) + FloorShare(last.value, 500)

\* C7: what one deposit of v credits in total is at most v, and at most 3
\* units less than v.
TotalBalance(v) == SumTo([i \in 0 .. 3 |-> Bal(v, <<"alice", "bob", "carol", "dave">>[i + 1])], 4)

C7_Step ==
    (last'.op = "deposit" /\ last'.result = "Ok") =>
        LET credited == TotalBalance(vault') - TotalBalance(vault)
        IN  /\ credited <= last'.value
            /\ last'.value - credited <= 3

\* C7 (formula): every deposit step credits at most v and at least v - 3.
C7_DustAtMostThree == [][C7_Step]_vars

\* the only deposit a fresh vault has received left exactly 3 units uncredited
C7_Witness ==
    /\ last.op = "deposit"
    /\ last.result = "Ok"
    /\ funds.vault = last.value
    /\ last.value - TotalBalance(vault) = 3

\* C8: a successful withdraw moves out of the vault exactly the caller's
\* balance at the start of the call, also when the recipient re-enters
\* withdraw during the transfer; each re-entrant call fails NothingToWithdraw.
C8_Step ==
    (last'.op = "withdraw" /\ last'.result = "Ok") =>
        /\ last'.paid = Bal(vault, last'.caller)
        /\ funds.vault - funds'.vault = Bal(vault, last'.caller)
        /\ last'.depth > 0 => last'.inner = "NothingToWithdraw"

\* C8 (formula): every withdraw step pays the starting balance, never more.
C8_ReentrantWithdrawGainsNothing == [][C8_Step]_vars

\* a recipient re-entered withdraw during a transfer while the vault still
\* held more than it was being paid
C8_Witness ==
    /\ last.op = "withdraw"
    /\ last.result = "Ok"
    /\ last.depth > 0
    /\ last.paid > 0
    /\ funds.vault >= last.paid

\* C9: withdraw by an account with no balance fails NothingToWithdraw and
\* changes nothing; by an account with balance b > 0 it succeeds, pays exactly
\* b, leaves that balance 0 and every other balance as it was; the same
\* account's next withdraw, made at once, fails NothingToWithdraw.
C9_Step ==
    /\ last'.op = "withdraw" =>
           LET b == Bal(vault, last'.caller)
           IN  IF b = 0
               THEN /\ last'.result = "NothingToWithdraw"
                    /\ vault' = vault
                    /\ funds' = funds
               ELSE /\ last'.result = "Ok"
                    /\ last'.paid = b
                    /\ funds'.vault = funds.vault - b
                    /\ \A a \in Accounts :
                           Bal(vault', a) = IF a = last'.caller THEN 0 ELSE Bal(vault, a)
    /\ (/\ last.op = "withdraw"
        /\ last.result = "Ok"
        /\ last'.op = "withdraw"
        /\ last'.caller = last.caller) => last'.result = "NothingToWithdraw"

\* C9 (formula): every withdraw step fails on zero and pays a balance once.
C9_WithdrawPaysBalanceOnce == [][C9_Step]_vars

\* a plain withdraw has just paid out a positive balance
C9_Witness ==
    /\ last.op = "withdraw"
    /\ last.result = "Ok"
    /\ last.depth = 0
    /\ last.paid > 0
    /\ Bal(vault, last.caller) = 0

\* C10: submit_campaign fails exactly when the attached value is less than the
\* mathematical product payout_per_impression * max_impressions; otherwise it
\* stores a Pending campaign holding the whole attached value for the caller.
C10_SubmitChecksProduct ==
    last.op = "submit_campaign" =>
        IF last.value < last.payout_per_impression * last.max_impressions
        THEN last.result # "Ok"
        ELSE /\ last.result = "Ok"
             /\ Campaigns[last.id] =
                    [advertiser |-> last.caller,
                     reward_vault |-> last.reward_vault,
                     payout_per_impression |-> last.payout_per_impression,
                     deposit_remaining |-> last.value,
                     max_impressions |-> last.max_impressions,
                     approved |-> FALSE,
                     killed |-> FALSE]


\* C11: campaign ids come from a counter that starts at 0 and only grows: the
\* stored campaigns are exactly those with ids 0 .. next_id - 1; a successful
\* submit_campaign returns the counter's value, which no earlier call returned
\* and which exceeds every id returned before, and leaves every campaign that
\* existed as it was; no step of any operation removes a campaign.
C11_IdsAreDense == DOMAIN Campaigns = 0 .. registry.next_id - 1

C11_Step ==
    /\ DOMAIN Campaigns \subseteq DOMAIN registry'.campaigns
    /\ registry'.next_id >= registry.next_id
    /\ (last'.op = "submit_campaign" /\ last'.result = "Ok") =>
           /\ last'.id = registry.next_id
           /\ \A id \in DOMAIN Campaigns : last'.id > id
           /\ registry'.next_id = last'.id + 1
           /\ DOMAIN registry'.campaigns = DOMAIN Campaigns \cup {last'.id}
           /\ \A id \in DOMAIN Campaigns : registry'.campaigns[id] = Campaigns[id]
    /\ (last'.op = "submit_campaign" /\ last'.result # "Ok") => registry' = registry
    /\ last'.op # "submit_campaign" => registry'.next_id = registry.next_id

\* C11 (formula): C11_IdsAreDense in every state, C11_Step in every step.
C11_IdsStrictlyIncrease == [](C11_IdsAreDense) /\ [][C11_Step]_vars

\* a second campaign has just been created with id 1 beside campaign 0, which
\* the owner had approved before and which is still approved
C11_Witness ==
    /\ last.op = "submit_campaign"
    /\ last.result = "Ok"
    /\ last.id = 1
    /\ Campaigns[0].approved
    /\ ~Campaigns[1].approved

\* C12: approve(id) and kill(id) by anyone but the registry's owner fail
\* NotOwner, whether or not id exists, and batch_record by anyone but the
\* logger's owner fails NotAuthorized; such a call changes no campaign, no
\* balance and no funds.
C12_Step ==
    /\ (last'.op \in {"approve", "kill"} /\ last'.caller # registry.owner) =>
           /\ last'.result = "NotOwner"
           /\ registry' = registry
           /\ vault' = vault
           /\ funds' = funds
    /\ (last'.op = "batch_record" /\ last'.caller # logger.owner) =>
           /\ last'.result = "NotAuthorized"
           /\ registry' = registry
           /\ vault' = vault
           /\ funds' = funds

\* C12 (formula): every step by a caller who is not the owner is refused.
C12_OnlyOwner == [][C12_Step]_vars

\* kill was refused to a caller who is not the owner, on a live campaign whose
\* escrow the registry could have refunded
C12_Witness ==
    /\ last.op = "kill"
    /\ last.caller # registry.owner
    /\ last.result = "NotOwner"
    /\ last.id \in DOMAIN Campaigns
    /\ ~Campaigns[last.id].killed
    /\ Campaigns[last.id].deposit_remaining > 0
    /\ funds.registry >= Campaigns[last.id].deposit_remaining

\* C13: a campaign that is approved stays approved and a campaign that is
\* killed stays killed, through every step (approve included); and approve(id)
\* by the owner on a campaign that is already approved leaves its record
\* exactly as it was.
C13_Step ==
    /\ \A id \in DOMAIN Campaigns :
           /\ id \in DOMAIN registry'.campaigns
           /\ Campaigns[id].approved => registry'.campaigns[id].approved
           /\ Campaigns[id].killed => registry'.campaigns[id].killed
    /\ (last'.op = "approve" /\ last'.result = "Ok") =>
           /\ registry'.campaigns[last'.id].approved
           /\ Campaigns[last'.id].approved => registry' = registry

\* C13 (formula): every step keeps approved and killed, and re-approval is a
\* no-op.
C13_LifecycleMonotonic == [][C13_Step]_vars

\* approve has just succeeded on a campaign that is killed and had already
\* been approved before (an impression was paid from its escrow): it is still
\* killed and approved
C13_Witness ==
    /\ last.op = "approve"
    /\ last.result = "Ok"
    /\ Campaigns[last.id].killed
    /\ Campaigns[last.id].approved
    /\ Campaigns[last.id].deposit_remaining < initial_deposit[last.id]

\* C14: record_impression on an existing campaign that is not approved fails
\* CampaignNotActive and changes nothing; on an approved, not killed campaign
\* with payout p > 0 whose initial deposit is a multiple p*n of p, it succeeds
\* as long as fewer than n impressions were paid (deposit_remaining >= p),
\* moving exactly p from the campaign's escrow into the vault, and once
\* deposit_remaining is 0 it fails CampaignOutOfFunds and changes nothing.
C14_Step ==
    (last'.op = "record_impression" /\ last'.id \in DOMAIN Campaigns) =>
        LET id == last'.id
            c  == Campaigns[id]
            p  == c.payout_per_impression
        IN  /\ ~c.approved =>
                   /\ last'.result = "CampaignNotActive"
                   /\ registry' = registry
                   /\ vault' = vault
                   /\ funds' = funds
            /\ (c.approved /\ ~c.killed /\ p > 0 /\ initial_deposit[id] % p = 0) =>
                   IF c.deposit_remaining >= p
                   THEN /\ last'.result = "Ok"
                        /\ registry'.campaigns[id] =
                               [c EXCEPT !.deposit_remaining = @ - p]
                        /\ funds'.vault = funds.vault + p
                        /\ funds'.registry = funds.registry - p
                   ELSE /\ c.deposit_remaining = 0
                        /\ last'.result = "CampaignOutOfFunds"
                        /\ registry' = registry
                        /\ vault' = vault
                        /\ funds' = funds

\* C14 (formula): every record_impression step pays p until the escrow is used
\* up and is refused afterwards.
C14_ExactlyNImpressions == [][C14_Step]_vars

\* C15: kill(id) by the owner on a campaign that is already killed leaves the
\* campaign record as it is and transfers nothing: the registry's funds and the
\* total refunded for id do not change.
C15_Step ==
    (/\ last'.op = "kill"
     /\ last'.result = "Ok"
     /\ Campaigns[last'.id].killed) =>
        /\ registry' = registry
        /\ funds' = funds
        /\ refunded' = refunded
        /\ last'.transfer # "ok"

\* C15 (formula): every repeated kill is a no-op.
C15_KillIdempotent == [][C15_Step]_vars

\* C16: kill(id) by the owner on an existing campaign always succeeds, whether
\* or not the refund transfer went through, and leaves the stored campaign
\* killed with deposit_remaining = 0.
C16_KillSwallowsTransferFailure ==
    (/\ last.op = "kill"
     /\ last.caller = registry.owner
     /\ last.id \in DOMAIN Campaigns) =>
        /\ last.result = "Ok"
        /\ Campaigns[last.id].killed
        /\ Campaigns[last.id].deposit_remaining = 0

\* C17: in every step, every account's RewardVault balance stays as it is, or
\* grows in a successful call that deposits with the account as user,
\* publisher, staker or treasury, or falls from a positive value to exactly 0
\* in a successful withdraw by that account.
Parties(call) ==
    IF call.op \in {"deposit", "record_impression"}
    THEN {call.user, call.publisher, call.staker, vault.treasury}
    ELSE IF call.op = "batch_record"
    THEN UNION {{call.records[i][2], call.records[i][3], call.records[i][4],
                 vault.treasury} : i \in 1 .. Len(call.records)}
    ELSE {}

C17_Step ==
    /\ DOMAIN vault'.balances \subseteq Accounts
    /\ \A a \in Accounts :
           \/ Bal(vault', a) = Bal(vault, a)
           \/ /\ Bal(vault', a) > Bal(vault, a)
              /\ last'.result = "Ok"
              /\ a \in Parties(last')
           \/ /\ Bal(vault, a) > 0
              /\ Bal(vault', a) = 0
              /\ last'.op = "withdraw"
              /\ last'.result = "Ok"
              /\ last'.caller = a

\* C17 (formula): every step changes balances only by crediting a deposit's
\* parties or by zeroing the withdrawer.
C17_BalancesOnlyCreditedOrZeroed == [][C17_Step]_vars

\* a withdraw has just zeroed its caller's balance while two other accounts
\* keep the positive balances that deposits credited them
C17_Witness ==
    /\ last.op = "withdraw"
    /\ last.result = "Ok"
    /\ Bal(vault, last.caller) = 0
    /\ Cardinality({a \in Accounts : Bal(vault, a) > 0}) >= 2
    /\ deposited > 0

\* C18: what record_impression(id, user, publisher, staker) returns and does
\* is fixed by the registry and vault state it meets and by its arguments,
\* whoever calls it: it fails CampaignNotFound, CampaignNotActive,
\* CampaignOutOfFunds or (the payout cannot be forwarded) CallFailed without
\* any change, or else moves one payout from the campaign's escrow to the
\* vault and credits the shares.
ExpectedImpression(id) ==
    IF id \notin DOMAIN Campaigns THEN "CampaignNotFound"
    ELSE IF ~Campaigns[id].approved \/ Campaigns[id].killed THEN "CampaignNotActive"
    ELSE IF Campaigns[id].deposit_remaining < Campaigns[id].payout_per_impression
    THEN "CampaignOutOfFunds"
    ELSE IF \/ Campaigns[id].reward_vault # VaultAddr
            \/ funds.registry < Campaigns[id].payout_per_impression
    THEN "CallFailed"
    ELSE "Ok"

C18_Step ==
    last'.op = "record_impression" =>
        /\ last'.result = ExpectedImpression(last'.id)
        /\ IF ExpectedImpression(last'.id) = "Ok"
           THEN LET id == last'.id
                    p  == Campaigns[id].payout_per_impression
                IN  /\ registry' =
                           [registry EXCEPT !.campaigns[id].deposit_remaining = @ - p]
                    /\ \A a \in Accounts :
                           Bal(vault', a) = Bal(vault, a)
                               + Owed(a, last'.user, last'.publisher, last'.staker,
                                      vault.treasury, p)
                    /\ funds' = [registry |-> funds.registry - p,
                                 vault |-> funds.vault + p]
           ELSE /\ registry' = registry
                /\ vault' = vault
                /\ funds' = funds

\* C18 (formula): every record_impression step has the outcome its state and
\* arguments fix, for every caller.
C18_AnyCallerSameOutcome == [][C18_Step]_vars

\* an account that is neither the registry's owner nor the logger's has just
\* consumed the last payout of an approved campaign's escrow
C18_Witness ==
    /\ last.op = "record_impression"
    /\ last.caller \notin {registry.owner, logger.owner}
    /\ last.result = "Ok"
    /\ Campaigns[last.id].deposit_remaining = 0
    /\ initial_deposit[last.id] > 0
    /\ funds.vault > 0

\* C19: the registry holds at least the sum of the stored deposit_remaining of
\* all campaigns, and no campaign's advertiser has been refunded more than the
\* value attached when the campaign was created.
C19_RegistrySolvent ==
    /\ TotalRemaining(registry) <= funds.registry
    /\ \A id \in DOMAIN Campaigns : refunded[id] <= initial_deposit[id]

\* C20: the balances of the RewardVault ledger sum to at most the native value
\* the vault holds.
C20_VaultSolvent == TotalBalance(vault) <= funds.vault

\* withdraws have paid out part of what deposits brought in: the vault still
\* owes positive balances and holds more than it owes
C20_Witness ==
    /\ last.op = "withdraw"
    /\ last.result = "Ok"
    /\ TotalBalance(vault) > 0
    /\ funds.vault > TotalBalance(vault)
    /\ deposited > 0

====
